---- MODULE Spec2Model ----
(***************************************************************************)
(* A model of the Weverse API proxy's authenticated client                 *)
(* (lib/weverseClient.js): the process-wide session (access token, refresh *)
(* token, Authorization header of the axios instance), login, token        *)
(* refresh, and the seven resource operations with their                   *)
(* refresh-and-retry handling of HTTP 401.                                 *)
(*                                                                         *)
(* Node runs the code on one thread: everything between two awaits is one  *)
(* atomic step.  Each action below is one such step: the code that runs    *)
(* from the arrival of a response (or from the invocation) up to the next  *)
(* await or to the settlement of the operation's promise.                  *)
(*                                                                         *)
(* One logical resource call is observed in full: its operation, the       *)
(* requests it issues, the responses it gets and its result (call).  The   *)
(* resource calls that run beside it (others) go through the same code;    *)
(* the model keeps of them what the session and the account service see:   *)
(* whether a resource request or a token exchange of theirs is in flight.  *)
(***************************************************************************)
EXTENDS Naturals, Sequences, FiniteSets, TLC

(***************************************************************************)
(* Bounds of the model.                                                    *)
(***************************************************************************)
\* Resource requests the observed logical call may issue before the model
\* stops the upstream from answering 401 again (the code has no such limit).
MaxRequests == 3
\* Number of other resource calls that may be in progress beside it.
MaxOthers == 1
\* HTTP requests the server may be handling at once.
MaxHttp == 2
\* The clock advances in steps of TickSeconds, MaxTicks times.
TickSeconds == 150
MaxTicks == 4
\* A ttl given to set explicitly (shorter than the default).
ShortTtl == 150
\* The page numbers operations are called with: 0..MaxPage.
MaxPage == 2

Others == 1..MaxOthers
Https == 1..MaxHttp

(***************************************************************************)
(* Values.                                                                 *)
(***************************************************************************)
\* null / undefined: every falsy value the code tests with if (x).
NULL == "null"
\* Tokens the account service can issue.
Tokens == {"tokA", "tokB"}
\* The value of WEVERSE_API_TOKEN when the environment sets it.
EnvToken == "envTok"
\* Payloads (response.data) of the resource API.
Payloads == {"data1", "data2"}

\* The seven resource operations.
Ops ==
  {"getCommunities", "getPost", "getNotifications", "getPosts",
   "getArtists", "getMedia", "getComments"}

\* The context each operation puts in front of the cause when it throws.
OpContext(op) ==
  CASE op = "getCommunities"   -> "Failed to get communities"
    [] op = "getPost"          -> "Failed to get post"
    [] op = "getNotifications" -> "Failed to get notifications"
    [] op = "getPosts"         -> "Failed to get posts"
    [] op = "getArtists"       -> "Failed to get artists"
    [] op = "getMedia"         -> "Failed to get media"
    [] op = "getComments"      -> "Failed to get comments"

\* An axios error: status is the HTTP status of error.response, 0 when there
\* is no response (network failure, timeout); message is error.message.
Err401 == [status |-> 401, message |-> "Request failed with status code 401"]
Err500 == [status |-> 500, message |-> "Request failed with status code 500"]
ErrNetwork == [status |-> 0, message |-> "Network Error"]
ErrTimeout == [status |-> 0, message |-> "timeout of 10000ms exceeded"]
\* No error (the catch block is not running).
NoError == [status |-> 0, message |-> "none"]
\* Failures of a resource request other than 401.
OtherErrors == {Err500, ErrNetwork, ErrTimeout}
\* Failures of a request to the account service.
AuthErrors == {Err401, ErrNetwork}

\* Bodies the account service answers a login or a token exchange with.
TokenBodies ==
  [access_token : Tokens \cup {NULL}, refresh_token : Tokens \cup {NULL}]

\* `Bearer ${token}`
Bearer(t) == "Bearer " \o t

\* new Error(`Failed to get ...: ${error.message}`)
WrappedMessage(op, err) == OpContext(op) \o ": " \o err.message

(***************************************************************************)
(* State.                                                                  *)
(***************************************************************************)
VARIABLES
  token,        \* weverseClient.token
  refreshToken, \* weverseClient.refreshToken
  authHeader,   \* axiosInstance.defaults.headers.common['Authorization']
  call,         \* the observed logical resource call
  others,       \* the resource calls in progress beside it
  login,        \* the login() call in progress
  store,        \* the entries of the NodeCache instance of lib/cache.js
  now,          \* Date.now(), in seconds
  cacheCall,    \* the last call of a method of Cache, and what it returned
  route,        \* the route the HTTP requests under observation go to
  http,         \* the HTTP requests the server is handling
  request,      \* the last request an operation built from its arguments
  startup       \* the environment of the process and its auto-login

vars ==
  <<token, refreshToken, authHeader, call, others, login,
    store, now, cacheCall, route, http, request, startup>>
session == <<token, refreshToken, authHeader>>
\* What the methods of WeverseClient never touch: the cache, the HTTP
\* layer, the record of the request parameters and the startup of the
\* module.
serverSide == <<store, now, cacheCall, route, http, request, startup>>
\* What lib/cache.js never touches.
clientSide == <<token, refreshToken, authHeader, call, others, login>>

\* The body of a response that carries no token.
NoBody == [access_token |-> NULL, refresh_token |-> NULL]

\* The observed call when no operation is running.
\*   pc        idle | get (resource request in flight) | refresh (token
\*             exchange in flight) | returned | thrown
\*   op        the operation invoked
\*   caught    the error the catch block is handling (while refreshing)
\*   sent      the Authorization header of the resource request in flight,
\*             or the refresh token of the token exchange in flight
\*   result    the payload returned or the message of the error thrown
\*   answer    the body of the token exchange answer just handled (until
\*             the next response to this call arrives)
\* and, as a record of what happened in this logical call,
\*   nReq      resource requests issued
\*   nRefresh  token exchange requests issued
\*   hist      the responses to the resource requests, in order
\*   rhist     the invocations of refreshAccessToken, in order
IdleCall ==
  [pc |-> "idle", op |-> NULL, caught |-> NoError, sent |-> NULL,
   result |-> NULL, answer |-> NoBody, nReq |-> 0, nRefresh |-> 0,
   hist |-> <<>>, rhist |-> <<>>]

\* An entry of hist: the response to a resource request.
OkResponse(data) == [status |-> 200, data |-> data, message |-> NULL]
ErrorResponse(err) ==
  [status |-> err.status, data |-> NULL, message |-> err.message]

\* An entry of rhist: one invocation of refreshAccessToken.
\*   had       whether a refresh token was stored when it was invoked
\*   exchange  none (no request sent) | pending | error | answered
\*   returned  pending | true | false | thrown
RefreshEntry(had, exchange, returned) ==
  [had |-> had, exchange |-> exchange, returned |-> returned]

\* The login slot when no login is running.
\*   pc      idle | init (initialize request in flight) | post (login
\*           request in flight) | done
\*   result  what login() did: returned "true" or "false", or "thrown"
\*   cause   what the exchange did: initFailed | encryptFailed |
\*           postFailed | answered
\*   got     the access_token of the login response (NULL: the response
\*           carried none, or no response arrived)
IdleLogin ==
  [pc |-> "idle", result |-> NULL, cause |-> NULL, got |-> NULL]

(***************************************************************************)
(* The cache (lib/cache.js): values.                                       *)
(***************************************************************************)
\* const DEFAULT_TTL = 300 (seconds)
DEFAULT_TTL == 300

\* An argument that may be left out of a call (undefined) or supplied.
None == <<>>
Some(x) == <<x>>
\* (mutant) The default replaces the argument given.
DefaultParam_Always(arg, d) == d

\* A parameter with a default value: (x = d) in a parameter list.
DefaultParam(arg, d) == IF arg = None THEN d ELSE arg[1]

\* The empty string, a value that is falsy though it is not null.
EmptyString == ""
\* if (value): neither null / undefined nor another falsy value.
Truthy(v) == v # NULL /\ v # EmptyString

\* (mutant) The key is the namespace alone.
generateKey_PerNamespace(namespace, identifier) == namespace \o ":"

\* static generateKey(namespace, identifier): `${namespace}:${identifier}`
generateKey(namespace, identifier) == namespace \o ":" \o identifier

\* The namespaces the routes give to cacheMiddleware.
Namespaces ==
  {"communities", "post", "posts", "artists", "media", "comments", "rss",
   "widget"}

\* The protected routes that cacheMiddleware does not front, and all the
\* protected routes (those behind checkAuth).
UncachedRoutes == {"export", "notifications", "calendar"}
ProtectedRoutes == Namespaces \cup UncachedRoutes
\* The routes of the model: the protected ones and POST /auth/login.
Routes == ProtectedRoutes \cup {"login"}

\* req.originalUrl: the request targets of each route that pass its
\* validation (two of each: another id, or another query string).
Urls(ns) ==
  CASE ns = "communities" -> {"/api/communities", "/api/communities?x=1"}
    [] ns = "post"        -> {"/api/posts/p1", "/api/posts/p2"}
    [] ns = "posts"       -> {"/api/communities/c1/posts",
                              "/api/communities/c1/posts?page=2"}
    [] ns = "artists"     -> {"/api/communities/c1/artists",
                              "/api/communities/c2/artists"}
    [] ns = "media"       -> {"/api/posts/p1/media", "/api/posts/p2/media"}
    [] ns = "comments"    -> {"/api/posts/p1/comments",
                              "/api/posts/p1/comments?page=2"}
    [] ns = "rss"         -> {"/api/communities/c1/rss",
                              "/api/communities/c2/rss"}
    [] ns = "widget"      -> {"/api/widgets/latest/c1",
                              "/api/widgets/latest/c2"}
    [] ns = "export"      -> {"/api/communities/c1/export",
                              "/api/communities/c2/export"}
    [] ns = "notifications" -> {"/api/notifications",
                                "/api/notifications?size=50"}
    [] ns = "calendar"    -> {"/api/communities/c1/calendar",
                              "/api/communities/c2/calendar"}
    [] ns = "login"       -> {"/api/auth/login"}

\* The keys the cache can hold.
Keys == UNION {{generateKey(ns, u) : u \in Urls(ns)} : ns \in Namespaces}

\* An entry of the NodeCache instance: the value, and t, the time from
\* which it is expired (the time of the set plus the ttl).  setAt and ttl
\* record the set that stored it.
Entry(v, setAt, ttl) ==
  [has |-> TRUE, v |-> v, t |-> setAt + ttl, setAt |-> setAt, ttl |-> ttl]
\* No entry under a key.
NoEntry == [has |-> FALSE, v |-> NULL, t |-> 0, setAt |-> 0, ttl |-> 0]
\* new NodeCache(...): no entries.
EmptyStore == [k \in Keys |-> NoEntry]

\* The record of a call of a method of Cache:
\*   op      none | generateKey | get | set | delete | flush
\*   ns, id  the arguments of generateKey
\*   key     the key argument (of generateKey: the key returned)
\*   value   the value argument of set
\*   ttl     the ttl argument of set
\*   found   what get or set found under the key: none | live | expired
\*   result  what the method returned
NoCacheCall ==
  [op |-> "none", ns |-> NULL, id |-> NULL, key |-> NULL, value |-> NULL,
   ttl |-> None, found |-> "none", result |-> NULL]

(***************************************************************************)
(* The HTTP layer (index.js): values.                                      *)
(***************************************************************************)
\* A request slot of the server when it handles no request.
\*   pc        idle | upstream (the handler awaits the client) | done
\*   url       req.originalUrl
\*   hit       whether cacheMiddleware found the key in the cache
\*   patched   whether res.json is the function cacheMiddleware put there
\*   pending   operations of the client the handler still awaits
\*   upstream  operations of the client the handler has invoked
\*   status    res.statusCode of the response sent
\*   body      the body of the response sent
\*   looked    whether cacheMiddleware called cache.get for the request
\*   query     req.query as validateQuery left it for the handler
\*   reqBody   req.body of a login request
\*   env       process.env.NODE_ENV as the flush route read it
\* (pc is login while the login route awaits weverseClient.login).
IdleHttp ==
  [pc |-> "idle", url |-> NULL, hit |-> FALSE, patched |-> FALSE,
   pending |-> 0, upstream |-> 0, status |-> 0, body |-> NULL,
   looked |-> FALSE, query |-> None, reqBody |-> None, env |-> NULL]

\* The params object of a request: each key absent (None) or present.
NoParams == [page |-> None, size |-> None, sort |-> None, type |-> None]
\* The record of the request an operation built: the operation, the
\* arguments it was called with (each left out or supplied) and the params
\* it gave to axiosInstance.get.  No request built yet:
\* For a validation, the arguments are the keys of the query, params its
\* validated value and error whether the schema rejected it.
NoRequest ==
  [op |-> NULL, page |-> None, size |-> None, type |-> None,
   params |-> NoParams, error |-> FALSE]

\* process.env as the module reads it: the three variables it looks at
\* (NULL: not set), after the second attempt to load .env.
Environment(WEVERSE_API_TOKEN, WEVERSE_EMAIL, WEVERSE_PASSWORD) ==
  [WEVERSE_API_TOKEN |-> WEVERSE_API_TOKEN, WEVERSE_EMAIL |-> WEVERSE_EMAIL,
   WEVERSE_PASSWORD |-> WEVERSE_PASSWORD]
\* Credentials the environment may hold.
EnvEmail == "fan@example.com"
EnvPassword == "secret"

\* The startup of the module, in the environment env, when the module's
\* auto-login function has not run yet.
\*   pc      start | login (it awaits weverseClient.login) | done
\*   env     process.env
\*   logged  what it logged at its end: existing token | successful |
\*           failed | error | no credentials
Loading(env) == [pc |-> "start", env |-> env, logged |-> NULL]
\* The startup when the function has returned.
Started(env, logged) == [pc |-> "done", env |-> env, logged |-> logged]

(***************************************************************************)
(* Construction.                                                           *)
(***************************************************************************)
\* constructor: the token comes from the environment or is null; there is
\* no refresh token; the header is set only when there is a token.  The
\* environment holds no credentials, and the module's auto-login function
\* has returned.
ClientInit ==
  /\ token \in {NULL, EnvToken}
  /\ refreshToken = NULL
  /\ authHeader = IF token # NULL THEN Bearer(token) ELSE NULL
  /\ call = IdleCall
  /\ others = [o \in Others |-> "idle"]
  /\ login = IdleLogin
  /\ startup = Started(Environment(token, NULL, NULL),
                       IF token # NULL THEN "existing token"
                                       ELSE "no credentials")

\* module.exports = new Cache(): an empty cache; no method called yet.
CacheInit ==
  /\ store = EmptyStore
  /\ now = 0
  /\ cacheCall = NoCacheCall

\* The server handles no request, and no operation has built a request.
ServerIdle ==
  /\ route = NULL
  /\ http = [h \in Https |-> IdleHttp]
  /\ request = NoRequest

Init == ClientInit /\ CacheInit /\ ServerIdle

(***************************************************************************)
(* login(email, password)                                                  *)
(***************************************************************************)
\* (mutant) The catch block rethrows.
LoginCatch_Rethrows(cause) ==
  /\ login' = [login EXCEPT !.pc = "done", !.result = "thrown", !.cause = cause]
  /\ UNCHANGED <<session, call, others, serverSide>>

\* The catch block of login: log and return false.
LoginCatch(cause) ==
  /\ login' = [login EXCEPT !.pc = "done", !.result = "false", !.cause = cause]
  /\ UNCHANGED <<session, call, others, serverSide>>

\* login is invoked: the initialize request goes out.
LoginStart ==
  /\ login.pc \in {"idle", "done"}
  /\ login' = [IdleLogin EXCEPT !.pc = "init"]
  /\ UNCHANGED <<session, call, others, serverSide>>

\* The initialize request fails: caught, login returns false.
LoginInitFails ==
  /\ login.pc = "init"
  /\ \E err \in AuthErrors : LoginCatch("initFailed")

\* The initialize request succeeds; the password is encrypted (forge throws
\* on a password it cannot encrypt, which the catch block turns into false)
\* and the login request goes out.
LoginInitSucceeds ==
  /\ login.pc = "init"
  /\ \E encryptable \in BOOLEAN :
       IF encryptable
         THEN /\ login' = [login EXCEPT !.pc = "post"]
              /\ UNCHANGED <<session, call, others, serverSide>>
         ELSE LoginCatch("encryptFailed")

\* The login request fails (network, 4xx/5xx): caught, login returns false.
LoginPostFails ==
  /\ login.pc = "post"
  /\ \E err \in AuthErrors : LoginCatch("postFailed")

\* (mutant) A new session empties the cache.
LoginInstall_FlushesCache(body) ==
  /\ token' = body.access_token
  /\ refreshToken' = body.refresh_token
  /\ authHeader' = Bearer(body.access_token)
  /\ login' = [login EXCEPT !.pc = "done", !.result = "true",
                            !.cause = "answered", !.got = body.access_token]
  /\ store' = [k \in DOMAIN store |-> [has |-> FALSE, v |-> NULL, t |-> 0,
                                       setAt |-> 0, ttl |-> 0]]
  /\ UNCHANGED <<call, others, now, cacheCall, route, startup, http, request>>

\* The login response carries an access token: the session is installed
\* and login returns true.
LoginInstall(body) ==
  /\ token' = body.access_token
  /\ refreshToken' = body.refresh_token
  /\ authHeader' = Bearer(body.access_token)
  /\ login' = [login EXCEPT !.pc = "done", !.result = "true",
                            !.cause = "answered", !.got = body.access_token]
  /\ UNCHANGED <<call, others, serverSide>>

\* (mutant) The tokens are stored before the response is looked at.
LoginNoToken_StoresFirst(body) ==
  /\ token' = body.access_token
  /\ refreshToken' = body.refresh_token
  /\ login' = [login EXCEPT !.pc = "done", !.result = "false",
                            !.cause = "answered", !.got = body.access_token]
  /\ UNCHANGED <<authHeader, call, others, serverSide>>

\* (mutant) A login answered without a token logs the client out.
LoginNoToken_LogsOut(body) ==
  /\ login' = [login EXCEPT !.pc = "done", !.result = "false",
                            !.cause = "answered", !.got = body.access_token]
  /\ token' = NULL
  /\ authHeader' = NULL
  /\ UNCHANGED <<refreshToken, call, others, serverSide>>

\* The login response carries no access token: login returns false.
LoginNoToken(body) ==
  /\ login' = [login EXCEPT !.pc = "done", !.result = "false",
                            !.cause = "answered", !.got = body.access_token]
  /\ UNCHANGED <<session, call, others, serverSide>>

\* The login response arrives.
LoginPostSucceeds ==
  /\ login.pc = "post"
  /\ \E body \in TokenBodies :
       IF body.access_token # NULL
         THEN LoginInstall(body)
         ELSE LoginNoToken(body)

(***************************************************************************)
(* The resource operations and refreshAccessToken: the observed call       *)
(***************************************************************************)
\* The counters and histories are capped at MaxRequests, so that they stay
\* finite where the model lets a call retry without limit.
Count(n) == IF n < MaxRequests THEN n + 1 ELSE n
Record(h, x) == IF Len(h) < MaxRequests THEN Append(h, x) ELSE h

\* axiosInstance.get(...): the request goes out with the Authorization
\* header the instance holds at that moment.
IssueRequest(r, header) ==
  [r EXCEPT !.pc = "get", !.nReq = Count(r.nReq), !.sent = header,
            !.caught = NoError]

\* (mutant) An operation refreshes the token before its first request.
Invoke_RefreshesFirst(op) ==
  /\ call.pc \in {"idle", "returned", "thrown"}
  /\ call' = [IdleCall EXCEPT !.op = op, !.pc = "refresh", !.nRefresh = 1,
                              !.caught = Err401, !.sent = refreshToken,
                              !.rhist = <<RefreshEntry(refreshToken # NULL,
                                                       "pending", "pending")>>]
  /\ UNCHANGED <<session, others, login, serverSide>>

\* An operation is invoked: its try block issues the request.
Invoke(op) ==
  /\ call.pc \in {"idle", "returned", "thrown"}
  /\ call' = IssueRequest([IdleCall EXCEPT !.op = op], authHeader)
  /\ UNCHANGED <<session, others, login, serverSide>>

getCommunities == Invoke("getCommunities")
getPost == Invoke("getPost")
getNotifications == Invoke("getNotifications")
getPosts == Invoke("getPosts")
getArtists == Invoke("getArtists")
getMedia == Invoke("getMedia")
getComments == Invoke("getComments")

\* (mutant) The response is returned instead of its data.
ReturnData_WholeResponse(r, data) ==
  [r EXCEPT !.pc = "returned", !.sent = NULL, !.result = "response"]

\* return response.data
ReturnData(r, data) ==
  [r EXCEPT !.pc = "returned", !.sent = NULL, !.result = data]

\* (mutant) The failure of a retry is wrapped again by the call that made
\* the retry.
ThrowWrapped_PerLevel(r, err) ==
  [r EXCEPT !.pc = "thrown", !.sent = NULL, !.caught = NoError,
            !.result = IF r.nReq > 1
                         THEN OpContext(r.op) \o ": "
                                \o WrappedMessage(r.op, err)
                         ELSE WrappedMessage(r.op, err)]

\* throw new Error(`Failed to get ...: ${error.message}`)
ThrowWrapped(r, err) ==
  [r EXCEPT !.pc = "thrown", !.sent = NULL, !.caught = NoError,
            !.result = WrappedMessage(r.op, err)]

\* The resource request answers 200.
ResponseOk ==
  /\ call.pc = "get"
  /\ \E data \in Payloads :
       call' = ReturnData(
                 [call EXCEPT !.hist = Record(call.hist, OkResponse(data)),
                              !.answer = NoBody],
                 data)
  /\ UNCHANGED <<session, others, login, serverSide>>

\* (mutant) Any error response counts as an expired token.
IsUnauthorized_AnyStatus(err) == err.status # 0

\* error.response && error.response.status === 401
IsUnauthorized(err) == err.status = 401

\* (mutant) The check for a stored refresh token is missing.
HasRefreshToken_Unchecked == TRUE

\* if (!this.refreshToken) return false
HasRefreshToken == refreshToken # NULL

\* refreshAccessToken is entered.
EnterRefresh(r) ==
  [r EXCEPT !.rhist =
     Record(r.rhist,
            RefreshEntry(refreshToken # NULL, "none", "pending"))]

\* refreshAccessToken ends: what the exchange did and what is returned.
LeaveRefresh(r, exchange, returned) ==
  [r EXCEPT !.rhist[Len(r.rhist)] =
     RefreshEntry(r.rhist[Len(r.rhist)].had, exchange, returned)]

\* refreshAccessToken up to its await: without a refresh token it returns
\* false at once (and the operation throws), with one the token exchange
\* request goes out, carrying the refresh token.
StartRefresh(r, err) ==
  IF HasRefreshToken
    THEN [LeaveRefresh(EnterRefresh(r), "pending", "pending")
            EXCEPT !.pc = "refresh", !.nRefresh = Count(r.nRefresh),
                   !.caught = err, !.sent = refreshToken]
    ELSE ThrowWrapped(LeaveRefresh(EnterRefresh(r), "none", "false"), err)

\* The catch block of an operation, entered with the error of the request.
Catch(r, err) ==
  IF IsUnauthorized(err) THEN StartRefresh(r, err) ELSE ThrowWrapped(r, err)

\* The resource request fails with err.
ResponseError(err) ==
  /\ call.pc = "get"
  /\ call' = Catch([call EXCEPT !.hist = Record(call.hist, ErrorResponse(err)),
                                !.answer = NoBody],
                   err)
  /\ UNCHANGED <<session, others, login, serverSide>>

\* The resource request answers 401.
Response401 == ResponseError(Err401)

\* (mutant) A failed request drops the session.
ResponseFails_DropsSession ==
  /\ call.pc = "get"
  /\ \E err \in OtherErrors :
       call' = Catch([call EXCEPT
                        !.hist = Record(call.hist, ErrorResponse(err)),
                        !.answer = NoBody],
                     err)
  /\ token' = NULL
  /\ authHeader' = NULL
  /\ UNCHANGED <<refreshToken, others, login, serverSide>>

\* The resource request fails otherwise: another status, no response, timeout.
ResponseFails == \E err \in OtherErrors : ResponseError(err)

\* (mutant) The new refresh token is not stored.
InstallRefreshed_KeepsRefreshToken(body) ==
  /\ token' = body.access_token
  /\ refreshToken' = refreshToken
  /\ authHeader' = Bearer(body.access_token)

\* (mutant) The header of the axios instance is not updated.
InstallRefreshed_KeepsHeader(body) ==
  /\ token' = body.access_token
  /\ refreshToken' =
       IF body.refresh_token # NULL THEN body.refresh_token ELSE refreshToken
  /\ authHeader' = authHeader

\* The token exchange answered with an access token: the session takes it,
\* and the refresh token when the response has one.
InstallRefreshed(body) ==
  /\ token' = body.access_token
  /\ refreshToken' =
       IF body.refresh_token # NULL THEN body.refresh_token ELSE refreshToken
  /\ authHeader' = Bearer(body.access_token)

\* refreshAccessToken returns true: the operation invokes itself again, and
\* the new request carries the header just installed.
RefreshReturnsTrue(body) ==
  /\ InstallRefreshed(body)
  /\ call' = IssueRequest(
                [LeaveRefresh(call, "answered", "true") EXCEPT !.answer = body],
                authHeader')
  /\ UNCHANGED <<others, login, serverSide>>

\* (mutant) The operation retries whatever refreshAccessToken returned.
RefreshReturnsFalse_Retries(exchange, body) ==
  /\ call' = IssueRequest(
                [LeaveRefresh(call, exchange, "false") EXCEPT !.answer = body],
                authHeader)
  /\ UNCHANGED <<session, others, login, serverSide>>

\* (mutant) A refresh that fails ends the session.
RefreshReturnsFalse_EndsSession(exchange, body) ==
  /\ call' = ThrowWrapped(
                [LeaveRefresh(call, exchange, "false") EXCEPT !.answer = body],
                call.caught)
  /\ token' = NULL
  /\ refreshToken' = NULL
  /\ authHeader' = NULL
  /\ UNCHANGED <<others, login, serverSide>>

\* refreshAccessToken returns false: the operation throws the error of its
\* 401 response, wrapped.
RefreshReturnsFalse(exchange, body) ==
  /\ call' = ThrowWrapped(
                [LeaveRefresh(call, exchange, "false") EXCEPT !.answer = body],
                call.caught)
  /\ UNCHANGED <<session, others, login, serverSide>>

\* The token exchange answers.
RefreshResponse ==
  /\ call.pc = "refresh"
  /\ \E body \in TokenBodies :
       IF body.access_token # NULL
         THEN RefreshReturnsTrue(body)
         ELSE RefreshReturnsFalse("answered", body)

\* The token exchange fails: caught, refreshAccessToken returns false.
RefreshFails ==
  /\ call.pc = "refresh"
  /\ \E err \in AuthErrors : RefreshReturnsFalse("error", NoBody)

(***************************************************************************)
(* The resource calls in progress beside the observed one: the same code,  *)
(* of which only the request in flight is kept.                            *)
(***************************************************************************)
\* Another caller invokes one of the operations.
OtherInvoke(o) ==
  /\ others[o] = "idle"
  /\ \E op \in Ops : others' = [others EXCEPT ![o] = "get"]
  /\ UNCHANGED <<session, call, login, serverSide>>

\* Its request answers 200, or fails with something other than 401: the
\* operation returns or throws.
OtherSettles(o) ==
  /\ others[o] = "get"
  /\ others' = [others EXCEPT ![o] = "idle"]
  /\ UNCHANGED <<session, call, login, serverSide>>

\* Its request answers 401: refreshAccessToken sends the token exchange, or
\* returns false when there is no refresh token (and the operation throws).
OtherResponse401(o) ==
  /\ others[o] = "get"
  /\ IsUnauthorized(Err401)
  /\ others' = [others EXCEPT
       ![o] = IF HasRefreshToken THEN "refresh" ELSE "idle"]
  /\ UNCHANGED <<session, call, login, serverSide>>

\* Its token exchange answers: with an access token the session takes the
\* new tokens and the operation invokes itself again; without, it throws.
OtherRefreshResponse(o) ==
  /\ others[o] = "refresh"
  /\ \E body \in TokenBodies :
       IF body.access_token # NULL
         THEN /\ InstallRefreshed(body)
              /\ others' = [others EXCEPT ![o] = "get"]
              /\ UNCHANGED <<call, login, serverSide>>
         ELSE /\ others' = [others EXCEPT ![o] = "idle"]
              /\ UNCHANGED <<session, call, login, serverSide>>

\* Its token exchange fails: the operation throws.
OtherRefreshFails(o) ==
  /\ others[o] = "refresh"
  /\ others' = [others EXCEPT ![o] = "idle"]
  /\ UNCHANGED <<session, call, login, serverSide>>

(***************************************************************************)
(* The specification: the upstream stops answering 401 to the observed     *)
(* call once it has issued MaxRequests requests.                           *)
(***************************************************************************)
Next ==
  \/ LoginStart
  \/ LoginInitFails
  \/ LoginInitSucceeds
  \/ LoginPostFails
  \/ LoginPostSucceeds
  \/ getCommunities
  \/ getPost
  \/ getNotifications
  \/ getPosts
  \/ getArtists
  \/ getMedia
  \/ getComments
  \/ ResponseOk
  \/ call.nReq < MaxRequests /\ Response401
  \/ ResponseFails
  \/ RefreshResponse
  \/ RefreshFails
  \/ \E o \in Others :
       \/ OtherInvoke(o)
       \/ OtherSettles(o)
       \/ OtherResponse401(o)
       \/ OtherRefreshResponse(o)
       \/ OtherRefreshFails(o)

Spec == Init /\ [][Next]_vars

(***************************************************************************)
(* The specification without that stop: the upstream may answer 401 to     *)
(* every request.  Every resource request and every token exchange of the  *)
(* observed call eventually gets its response.                             *)
(***************************************************************************)
ResourceAnswer == ResponseOk \/ Response401 \/ ResponseFails
ExchangeAnswer == RefreshResponse \/ RefreshFails

LiveNext ==
  \/ LoginStart
  \/ LoginInitFails
  \/ LoginInitSucceeds
  \/ LoginPostFails
  \/ LoginPostSucceeds
  \/ getCommunities
  \/ getPost
  \/ getNotifications
  \/ getPosts
  \/ getArtists
  \/ getMedia
  \/ getComments
  \/ ResourceAnswer
  \/ ExchangeAnswer
  \/ \E o \in Others :
       \/ OtherInvoke(o)
       \/ OtherSettles(o)
       \/ OtherResponse401(o)
       \/ OtherRefreshResponse(o)
       \/ OtherRefreshFails(o)

LiveSpec ==
  /\ Init
  /\ [][LiveNext]_vars
  /\ WF_vars(ResourceAnswer)
  /\ WF_vars(ExchangeAnswer)

(***************************************************************************)
(* The startup of the module: the constructor, run in an environment that  *)
(* may hold a token or credentials, and the auto-login function that runs  *)
(* right after it.                                                         *)
(***************************************************************************)
\* The values the variables of the environment may have at startup.
EnvTokens == {NULL, EmptyString, EnvToken}
EnvEmails == {NULL, EmptyString, EnvEmail}
EnvPasswords == {NULL, EnvPassword}

\* process.env.WEVERSE_API_TOKEN || null
OrNull(v) == IF Truthy(v) THEN v ELSE NULL

\* new WeverseClient() in the environment env: the session it makes.
constructor(env) ==
  /\ token = OrNull(env.WEVERSE_API_TOKEN)
  /\ refreshToken = NULL
  /\ authHeader = IF Truthy(token) THEN Bearer(token) ELSE NULL

\* The module is loaded: the client is constructed and the auto-login
\* function is about to run.
StartupInit ==
  /\ \E tok \in EnvTokens : \E em \in EnvEmails : \E pw \in EnvPasswords :
       startup = Loading(Environment(tok, em, pw))
  /\ constructor(startup.env)
  /\ call = IdleCall
  /\ others = [o \in Others |-> "idle"]
  /\ login = IdleLogin
  /\ CacheInit
  /\ ServerIdle

\* (mutant) The auto-login is attempted as soon as an email is configured.
AutoLogin_EmailOnly ==
  /\ startup.pc = "start"
  /\ IF Truthy(token)
       THEN /\ startup' = Started(startup.env, "existing token")
            /\ login' = login
       ELSE IF Truthy(startup.env.WEVERSE_EMAIL)
         THEN /\ startup' = [startup EXCEPT !.pc = "login"]
              /\ login' = [IdleLogin EXCEPT !.pc = "init"]
         ELSE /\ startup' = Started(startup.env, "no credentials")
              /\ login' = login
  /\ UNCHANGED <<session, call, others, store, now, cacheCall, route, http,
                 request>>

\* The auto-login function up to its await: it returns at once when the
\* client has a token; it calls weverseClient.login when the environment
\* holds an email and a password, and otherwise only logs.
AutoLogin ==
  /\ startup.pc = "start"
  /\ IF Truthy(token)
       THEN /\ startup' = Started(startup.env, "existing token")
            /\ login' = login
       ELSE IF /\ Truthy(startup.env.WEVERSE_EMAIL)
               /\ Truthy(startup.env.WEVERSE_PASSWORD)
         THEN /\ startup' = [startup EXCEPT !.pc = "login"]
              /\ login' = [IdleLogin EXCEPT !.pc = "init"]
         ELSE /\ startup' = Started(startup.env, "no credentials")
              /\ login' = login
  /\ UNCHANGED <<session, call, others, store, now, cacheCall, route, http,
                 request>>

\* The login the function awaits has settled: it logs the outcome (in its
\* catch block, had login thrown) and returns.
AutoLoginSettles ==
  /\ startup.pc = "login"
  /\ login.pc = "done"
  /\ startup' = Started(startup.env,
                        CASE login.result = "true"  -> "successful"
                          [] login.result = "false" -> "failed"
                          [] OTHER                  -> "error")
  /\ UNCHANGED <<clientSide, store, now, cacheCall, route, http, request>>

\* The module starts, and then serves: logins (one at a time) and the
\* observed resource call.  Nothing runs before the auto-login function
\* has reached its await or returned.
StartupNext ==
  \/ AutoLogin
  \/ AutoLoginSettles
  \/ startup.pc = "done" /\ LoginStart
  \/ startup.pc # "start" /\ LoginInitFails
  \/ startup.pc # "start" /\ LoginInitSucceeds
  \/ startup.pc # "start" /\ LoginPostFails
  \/ startup.pc # "start" /\ LoginPostSucceeds
  \/ startup.pc # "start" /\ getCommunities
  \/ startup.pc # "start" /\ ResponseOk
  \/ startup.pc # "start" /\ call.nReq < MaxRequests /\ Response401
  \/ startup.pc # "start" /\ ResponseFails
  \/ startup.pc # "start" /\ RefreshResponse
  \/ startup.pc # "start" /\ RefreshFails

StartupSpec == StartupInit /\ [][StartupNext]_vars

(***************************************************************************)
(* The cache (lib/cache.js): Cache, a wrapper of a NodeCache instance made *)
(* with stdTTL = DEFAULT_TTL, checkperiod = 0.2 * DEFAULT_TTL.             *)
(***************************************************************************)
\* NodeCache: an entry is expired once the clock is past its time t.
Expired(e) == e.t < now

\* What a get finds under a key, by the clock and the set that stored the
\* entry: nothing, an entry whose ttl has not elapsed, or one whose ttl has.
Found(key) ==
  IF ~store[key].has THEN "none"
  ELSE IF now - store[key].setAt > store[key].ttl THEN "expired"
  ELSE "live"

\* this.cache.get(key): the value of an entry that is not expired,
\* undefined otherwise.
NodeCacheGet(key) ==
  IF store[key].has /\ ~Expired(store[key]) THEN store[key].v ELSE NULL

\* this.cache.get(key) deletes the entry it finds expired.
afterGet(key) ==
  IF store[key].has /\ Expired(store[key])
    THEN [store EXCEPT ![key] = NoEntry]
    ELSE store

\* (mutant) get returns whatever is stored, expired or not.
get_IgnoresExpiry(key) == store[key].v

\* get(key): the value when it is truthy, null otherwise.
get(key) ==
  LET value == NodeCacheGet(key) IN IF Truthy(value) THEN value ELSE NULL

\* (mutant) set keeps the expiry time of the entry it overwrites.
set_KeepsExpiry(key, value, ttl) ==
  [store EXCEPT ![key] =
     IF store[key].has
       THEN [store[key] EXCEPT !.v = value]
       ELSE Entry(value, now, DefaultParam(ttl, DEFAULT_TTL))]

\* set(key, value, ttl = DEFAULT_TTL): the store after this.cache.set.
set(key, value, ttl) ==
  [store EXCEPT ![key] = Entry(value, now, DefaultParam(ttl, DEFAULT_TTL))]

\* delete(key): the store after this.cache.del(key).
delete(key) == [store EXCEPT ![key] = NoEntry]

\* flush(): the store after this.cache.flushAll().
flush == [k \in Keys |-> NoEntry]

\* The keys, values and ttl arguments the methods are called with.
ApiKeys == {generateKey("posts", u) : u \in Urls("posts")}
ApiValues == Payloads \cup {EmptyString}
ApiTtls == {None, Some(ShortTtl)}

\* (mutant) generateKey remembers the key it made as an entry of the cache.
CacheGenerateKey_Remembers ==
  /\ \E ns \in Namespaces : \E id \in Urls(ns) :
       /\ cacheCall' = [NoCacheCall EXCEPT !.op = "generateKey", !.ns = ns,
                                           !.id = id,
                                           !.key = generateKey(ns, id),
                                           !.result = generateKey(ns, id)]
       /\ store' = [store EXCEPT ![generateKey(ns, id)] =
                      Entry(NULL, now, DEFAULT_TTL)]
  /\ UNCHANGED <<clientSide, now, route, startup, http, request>>

\* Cache.generateKey(namespace, identifier) is called.
CacheGenerateKey ==
  /\ \E ns \in Namespaces : \E id \in Urls(ns) :
       cacheCall' = [NoCacheCall EXCEPT !.op = "generateKey", !.ns = ns,
                                        !.id = id,
                                        !.key = generateKey(ns, id),
                                        !.result = generateKey(ns, id)]
  /\ UNCHANGED <<clientSide, store, now, route, startup, http, request>>

\* cache.get(key) is called.
CacheGet ==
  /\ \E key \in ApiKeys :
       /\ cacheCall' = [NoCacheCall EXCEPT !.op = "get", !.key = key,
                                           !.found = Found(key),
                                           !.result = get(key)]
       /\ store' = afterGet(key)
  /\ UNCHANGED <<clientSide, now, route, startup, http, request>>

\* cache.set(key, value) or cache.set(key, value, ttl) is called.
CacheSet ==
  /\ \E key \in ApiKeys : \E value \in ApiValues : \E ttl \in ApiTtls :
       /\ cacheCall' = [NoCacheCall EXCEPT !.op = "set", !.key = key,
                                           !.value = value, !.ttl = ttl,
                                           !.found = Found(key),
                                           !.result = "true"]
       /\ store' = set(key, value, ttl)
  /\ UNCHANGED <<clientSide, now, route, startup, http, request>>

\* cache.delete(key) is called.
CacheDelete ==
  /\ \E key \in ApiKeys :
       /\ cacheCall' = [NoCacheCall EXCEPT !.op = "delete", !.key = key,
                                           !.result =
                                             IF store[key].has THEN "1"
                                                               ELSE "0"]
       /\ store' = delete(key)
  /\ UNCHANGED <<clientSide, now, route, startup, http, request>>

\* cache.flush() is called.
CacheFlush ==
  /\ cacheCall' = [NoCacheCall EXCEPT !.op = "flush"]
  /\ store' = flush
  /\ UNCHANGED <<clientSide, now, route, startup, http, request>>

\* Time passes.
Tick ==
  /\ now < MaxTicks * TickSeconds
  /\ now' = now + TickSeconds
  /\ UNCHANGED <<clientSide, store, cacheCall, route, startup, http, request>>

\* checkperiod: ttlSeconds * 0.2, the seconds between two periodic checks.
checkperiod == DEFAULT_TTL \div 5

\* (mutant) The periodic check deletes nothing.
Sweep_KeepsExpired ==
  /\ store' = store
  /\ UNCHANGED <<clientSide, now, cacheCall, route, startup, http, request>>

\* The periodic check of NodeCache (every checkperiod seconds) deletes the
\* entries it finds expired.
Sweep ==
  /\ store' = [k \in Keys |->
                IF store[k].has /\ Expired(store[k]) THEN NoEntry
                                                      ELSE store[k]]
  /\ UNCHANGED <<clientSide, now, cacheCall, route, startup, http, request>>

\* The cache alone, its methods called in any order.
CacheNext ==
  \/ CacheGenerateKey
  \/ CacheGet
  \/ CacheSet
  \/ CacheDelete
  \/ CacheFlush
  \/ Tick
  \/ Sweep

CacheSpec == Init /\ [][CacheNext]_vars

\* The cache with its timer: NodeCache re-arms the periodic check after
\* every run, so a check that has something to delete is not put off for
\* ever.
SweepNext ==
  \/ CacheGet
  \/ CacheSet
  \/ CacheDelete
  \/ Tick
  \/ Sweep

SweepSpec == Init /\ [][SweepNext]_vars /\ WF_vars(Sweep)

(***************************************************************************)
(* The request parameters of getNotifications, getPosts and getComments.   *)
(* A string argument is a sequence of characters.                          *)
(***************************************************************************)
\* The letters of the type names, small and capital.
SmallLetters == <<"a", "f", "i", "l", "n", "r", "s", "t">>
CapitalLetters == <<"A", "F", "I", "L", "N", "R", "S", "T">>

\* String.prototype.toUpperCase, of one character.
UpperChar(c) ==
  IF \E i \in DOMAIN SmallLetters : SmallLetters[i] = c
    THEN CapitalLetters[CHOOSE i \in DOMAIN SmallLetters : SmallLetters[i] = c]
    ELSE c

\* (mutant) The type is sent as it was given.
toUpperCase_Unchanged(str) == str

\* type.toUpperCase()
toUpperCase(str) == [i \in DOMAIN str |-> UpperChar(str[i])]

\* The type names: 'all', 'artist', 'fan', and 'Artist'.
TypeAll == <<"a", "l", "l">>
TypeArtist == <<"a", "r", "t", "i", "s", "t">>
TypeFan == <<"f", "a", "n">>
TypeArtistCapitalized == <<"A", "r", "t", "i", "s", "t">>

\* The arguments the operations are called with.
PageArgs == {None} \cup {Some(n) : n \in 0..MaxPage}
SizeArgs == {None} \cup {Some(n) : n \in {1, 20, 50}}
TypeArgs ==
  {None, Some(<<>>), Some(TypeAll), Some(TypeArtist), Some(TypeFan),
   Some(TypeArtistCapitalized)}

\* getNotifications(page = 1, size = 20): params: { page, size }
getNotificationsParams(page, size) ==
  [NoParams EXCEPT !.page = Some(DefaultParam(page, 1)),
                   !.size = Some(DefaultParam(size, 20))]

\* getComments(postId, page = 1, size = 20):
\* params: { page, size, sort: 'RECENT' }
getCommentsParams(page, size) ==
  [NoParams EXCEPT !.page = Some(DefaultParam(page, 1)),
                   !.size = Some(DefaultParam(size, 20)),
                   !.sort = Some("RECENT")]

\* getPosts(communityId, page = 1, size = 20, type = 'all'):
\* params = { page, size, sort: 'RECENT' };
\* if (type && type !== 'all') params.type = type.toUpperCase()
getPostsParams(page, size, type) ==
  LET t == DefaultParam(type, TypeAll) IN
    [NoParams EXCEPT !.page = Some(DefaultParam(page, 1)),
                     !.size = Some(DefaultParam(size, 20)),
                     !.sort = Some("RECENT"),
                     !.type = IF t # <<>> /\ t # TypeAll
                                THEN Some(toUpperCase(t))
                                ELSE None]

\* getNotifications is called and builds its request.
getNotificationsRequest ==
  /\ \E page \in PageArgs : \E size \in SizeArgs :
       request' = [NoRequest EXCEPT !.op = "getNotifications",
                                    !.page = page, !.size = size,
                                    !.params =
                                      getNotificationsParams(page, size)]
  /\ UNCHANGED <<clientSide, store, now, cacheCall, route, startup, http>>

\* getComments is called and builds its request.
getCommentsRequest ==
  /\ \E page \in PageArgs : \E size \in SizeArgs :
       request' = [NoRequest EXCEPT !.op = "getComments",
                                    !.page = page, !.size = size,
                                    !.params = getCommentsParams(page, size)]
  /\ UNCHANGED <<clientSide, store, now, cacheCall, route, startup, http>>

\* getPosts is called and builds its request.
getPostsRequest ==
  /\ \E page \in PageArgs : \E size \in SizeArgs : \E type \in TypeArgs :
       request' = [NoRequest EXCEPT !.op = "getPosts",
                                    !.page = page, !.size = size,
                                    !.type = type,
                                    !.params =
                                      getPostsParams(page, size, type)]
  /\ UNCHANGED <<clientSide, store, now, cacheCall, route, startup, http>>

(***************************************************************************)
(* Validation (lib/validator.js).  A value of a query key that Joi reads   *)
(* as a number (given as a number or as a numeric string) is recorded by   *)
(* its double, so that halves can be told from integers; any other value   *)
(* is not a number.                                                        *)
(***************************************************************************)
Number(twice) == [num |-> TRUE, twice |-> twice]
NotANumber == [num |-> FALSE, twice |-> 0]

\* Joi.number().integer(): a number without a fractional part.
integer(x) == x.num /\ x.twice % 2 = 0
\* (mutant) The lower limit is not checked.
min_Unchecked(x, limit) == TRUE
\* .min(limit) and .max(limit) of a number.
min(x, limit) == x.twice >= 2 * limit
max(x, limit) == x.twice <= 2 * limit
\* Joi.string().valid(...): one of the strings listed, as written.
valid(x, allowed) == x \in allowed

\* schemas.pagination.validate(query): whether there is an error, and the
\* value with the defaults filled in (which the middleware uses only when
\* there is no error).
\*   page: Joi.number().integer().min(1).default(1)
\*   size: Joi.number().integer().min(1).max(100).default(20)
\*   type: Joi.string().valid('artist', 'fan', 'all').optional()
pagination(query) ==
  LET pageOk == \/ query.page = None
                \/ integer(query.page[1]) /\ min(query.page[1], 1)
      sizeOk == \/ query.size = None
                \/ /\ integer(query.size[1])
                   /\ min(query.size[1], 1)
                   /\ max(query.size[1], 100)
      typeOk == \/ query.type = None
                \/ valid(query.type[1], {TypeArtist, TypeFan, TypeAll})
      error == ~(pageOk /\ sizeOk /\ typeOk)
  IN [error |-> error,
      value |-> IF error
                  THEN NoParams
                  ELSE [NoParams EXCEPT
                          !.page = IF query.page = None
                                     THEN Some(1)
                                     ELSE Some(query.page[1].twice \div 2),
                          !.size = IF query.size = None
                                     THEN Some(20)
                                     ELSE Some(query.size[1].twice \div 2),
                          !.type = query.type]]

\* The values of page and size a query may carry: 0, 0.5, 1, 1.5, 2, 20,
\* 50, 100, 100.5, 101 and a text that is no number; or the key is absent.
QueryNumbers ==
  {None, Some(NotANumber)}
    \cup {Some(Number(t)) : t \in {0, 1, 2, 3, 4, 40, 100, 200, 201, 202}}

\* A query is validated against the pagination schema.
validateQueryPagination ==
  /\ \E page \in QueryNumbers : \E size \in QueryNumbers :
     \E type \in TypeArgs :
       LET query == [NoParams EXCEPT !.page = page, !.size = size,
                                     !.type = type]
           result == pagination(query)
       IN request' = [NoRequest EXCEPT !.op = "validateQuery",
                                       !.page = page, !.size = size,
                                       !.type = type,
                                       !.params = result.value,
                                       !.error = result.error]
  /\ UNCHANGED <<clientSide, store, now, cacheCall, route, startup, http>>

ParamsNext ==
  \/ getNotificationsRequest
  \/ getCommentsRequest
  \/ getPostsRequest
  \/ validateQueryPagination

ParamsSpec == Init /\ [][ParamsNext]_vars

(***************************************************************************)
(* The session beside a cache that holds entries: logins, and operations   *)
(* that refresh the token, while values are stored in the cache.           *)
(***************************************************************************)
AuthCacheNext ==
  \/ LoginStart
  \/ LoginInitFails
  \/ LoginInitSucceeds
  \/ LoginPostFails
  \/ LoginPostSucceeds
  \/ \E o \in Others :
       \/ OtherInvoke(o)
       \/ OtherSettles(o)
       \/ OtherResponse401(o)
       \/ OtherRefreshResponse(o)
       \/ OtherRefreshFails(o)
  \/ CacheSet
  \/ CacheDelete

AuthCacheSpec == Init /\ [][AuthCacheNext]_vars

(***************************************************************************)
(* The HTTP layer (index.js): the protected routes, the login route and    *)
(* the flush route.                                                        *)
(* A step runs the middlewares and the handler of a request up to the      *)
(* handler's await, or from the settlement of what it awaits to the        *)
(* response.                                                               *)
(***************************************************************************)
\* The operations of the client a route's handler awaits: the rss route
\* awaits getCommunities and getPosts together, the others one operation.
Operations(ns) == IF ns = "rss" THEN 2 ELSE 1

\* Whether the handler sends its result with res.json (the rss route sends
\* feed.xml(), the widget route its html and the calendar route its ics
\* text with res.send).
SendsJson(ns) == ns \notin {"rss", "widget", "calendar"}

\* What the handler sends for the payload it got.
Render(ns, data) ==
  CASE ns = "rss"      -> "<rss>" \o data \o "</rss>"
    [] ns = "widget"   -> "<html>" \o data \o "</html>"
    [] ns = "calendar" -> "BEGIN:VCALENDAR" \o data \o "END:VCALENDAR"
    [] ns = "export"   -> "{data: " \o data \o "}"
    [] OTHER           -> data

\* The request whose response is kept for inspection; of the requests
\* handled beside it the model keeps only what is in progress.
Observed == 1

\* The response is sent: the slot of the request afterwards.
Respond(h, r, status, body) ==
  IF h = Observed
    THEN [r EXCEPT !.pc = "done", !.pending = 0, !.status = status,
                   !.body = body]
    ELSE IdleHttp

\* (mutant) The replaced res.json caches whatever it sends.
json_AnyStatus(r, key, status, data) == set(key, data, None)

\* (mutant) The replaced res.json leaves an entry that is already there.
json_KeepsFirst(r, key, status, data) ==
  IF r.patched /\ status = 200 /\ ~store[key].has
    THEN set(key, data, None)
    ELSE store

\* res.json(data): the store after it.  The function cacheMiddleware put in
\* its place writes the cache when res.statusCode is 200.
json(r, key, status, data) ==
  IF r.patched /\ status = 200 THEN set(key, data, None) ELSE store

\* res.send(body) with a string: Express writes the body without calling
\* res.json, so the store stays as it is.
send(r, key, status, body) == store

\* (mutant) checkAuth lets every request through.
Authenticated_Always == TRUE

\* checkAuth: if (!weverseClient.token)
Authenticated == Truthy(token)

\* Request targets whose query the pagination schema rejects.
InvalidUrls(ns) ==
  CASE ns = "posts"         -> {"/api/communities/c1/posts?page=0"}
    [] ns = "comments"      -> {"/api/posts/p1/comments?size=101"}
    [] ns = "notifications" -> {"/api/notifications?type=video"}
    [] OTHER                -> {}

\* req.query: the keys of the query string of a request target.
Query(url) ==
  CASE url \in {"/api/communities/c1/posts?page=2",
                "/api/posts/p1/comments?page=2"}
         -> [NoParams EXCEPT !.page = Some(Number(4))]
    [] url = "/api/notifications?size=50"
         -> [NoParams EXCEPT !.size = Some(Number(100))]
    [] url = "/api/communities/c1/posts?page=0"
         -> [NoParams EXCEPT !.page = Some(Number(0))]
    [] url = "/api/posts/p1/comments?size=101"
         -> [NoParams EXCEPT !.size = Some(Number(202))]
    [] url = "/api/notifications?type=video"
         -> [NoParams EXCEPT !.type = Some(<<"v", "i", "d", "e", "o">>)]
    [] OTHER -> NoParams

\* The routes with validateQuery(schemas.pagination) and those with
\* validateParams(schemas.communityId) or validateParams(schemas.postId).
ValidatesQuery(ns) == ns \in {"posts", "comments", "notifications"}
ValidatesParams(ns) == ns \notin {"communities", "notifications", "login"}

\* req.params: the id the router took from the path (never empty, or the
\* route would not have matched); no key for a route without one.
Params(ns, url) ==
  IF ~ValidatesParams(ns) THEN None
  ELSE IF url \in {"/api/posts/p2", "/api/posts/p2/media"} THEN Some("p2")
  ELSE IF ns \in {"post", "media", "comments"} THEN Some("p1")
  ELSE IF url \in {"/api/communities/c2/artists", "/api/communities/c2/rss",
                   "/api/widgets/latest/c2", "/api/communities/c2/export",
                   "/api/communities/c2/calendar"} THEN Some("c2")
  ELSE Some("c1")

\* schemas.communityId / schemas.postId: Joi.string().required() rejects a
\* missing id and the empty string.  The error of the validation.
requiredId(params) == params = None \/ params[1] = EmptyString

\* The bodies of login requests: email and password as in the tests, each
\* a sequence of characters, or left out.
GoodEmail == <<"t", "@", "e", "x", ".", "c", "o", "m">>
BadEmail == <<"i", "n", "v", "a", "l", "i", "d">>
GoodPassword == <<"p", "a", "s", "s", "w", "o", "r", "d">>
ShortPassword == <<"1", "2", "3">>
LoginBodies ==
  {[email |-> Some(GoodEmail), password |-> Some(GoodPassword)],
   [email |-> Some(BadEmail), password |-> Some(GoodPassword)],
   [email |-> Some(GoodEmail), password |-> Some(ShortPassword)],
   [email |-> Some(GoodEmail), password |-> None]}

\* Joi.string().email(): a local part, an @, and a domain of at least two
\* segments.
email(str) ==
  \E i \in 2..Len(str) :
    /\ str[i] = "@"
    /\ \E j \in (i + 2)..(Len(str) - 1) : str[j] = "."

\* schemas.login.validate(body): the error of the validation.
\*   email: Joi.string().email().required()
\*   password: Joi.string().min(6).required()
loginSchema(body) ==
  \/ body.email = None
  \/ ~email(body.email[1])
  \/ body.password = None
  \/ Len(body.password[1]) < 6

\* (mutant) A miss joins the upstream call another request has in flight
\* for the same key instead of making its own.
cacheMiddleware_JoinsInFlight(h, r, key) ==
  LET cachedData == get(key)
      shared == \E g \in Https \ {h} :
                  http[g].pc = "upstream" /\ http[g].url = r.url
  IN
    /\ store' = afterGet(key)
    /\ http' = [http EXCEPT ![h] =
         IF Truthy(cachedData)
           THEN Respond(h, [r EXCEPT !.hit = TRUE, !.looked = TRUE],
                        200, cachedData)
           ELSE [r EXCEPT !.pc = "upstream", !.patched = TRUE,
                          !.looked = TRUE,
                          !.pending = Operations(route),
                          !.upstream = IF shared THEN 0
                                                 ELSE Operations(route)]]

\* (mutant) cacheMiddleware goes on to the handler whatever it found.
cacheMiddleware_AlwaysNext(h, r, key) ==
  /\ store' = afterGet(key)
  /\ http' = [http EXCEPT ![h] =
       [r EXCEPT !.pc = "upstream", !.patched = TRUE, !.looked = TRUE,
                 !.pending = Operations(route),
                 !.upstream = Operations(route)]]

\* cacheMiddleware(namespace) and, on a miss, the handler up to its await:
\* a truthy cached value is sent at once; otherwise res.json is replaced
\* and the handler invokes the operations of the client.
cacheMiddleware(h, r, key) ==
  LET cachedData == get(key) IN
    /\ store' = afterGet(key)
    /\ http' = [http EXCEPT ![h] =
         IF Truthy(cachedData)
           THEN Respond(h, [r EXCEPT !.hit = TRUE, !.looked = TRUE],
                        200, cachedData)
           ELSE [r EXCEPT !.pc = "upstream", !.patched = TRUE,
                          !.looked = TRUE,
                          !.pending = Operations(route),
                          !.upstream = Operations(route)]]

\* (mutant) validateQuery reports the error and goes on.
validateQuery_GoesOn(r) ==
  [error |-> FALSE, req |-> [r EXCEPT !.query = Some(Query(r.url))]]

\* validateQuery(schemas.pagination): the error, and the request with
\* req.query = value.
validateQuery(r) ==
  LET result == pagination(Query(r.url)) IN
    [error |-> result.error,
     req |-> IF result.error THEN r
                             ELSE [r EXCEPT !.query = Some(result.value)]]

\* A request for a protected route arrives: checkAuth, validateParams,
\* validateQuery, cacheMiddleware and the handler up to its await, each
\* where the route has it.
HttpRequest(h) ==
  /\ http[h].pc \in {"idle", "done"}
  /\ route \in ProtectedRoutes
  /\ \E url \in Urls(route) \cup InvalidUrls(route) :
       LET r == [IdleHttp EXCEPT !.url = url]
           validated == IF ValidatesQuery(route)
                          THEN validateQuery(r)
                          ELSE [error |-> FALSE, req |-> r]
       IN
         IF ~Authenticated
           THEN /\ http' = [http EXCEPT ![h] =
                     Respond(h, r, 401, "Not authenticated with Weverse")]
                /\ store' = store
         ELSE IF \/ ValidatesParams(route) /\ requiredId(Params(route, url))
                 \/ validated.error
           THEN /\ http' = [http EXCEPT ![h] =
                     Respond(h, r, 400, "ValidationError")]
                /\ store' = store
         ELSE IF route \in Namespaces
           THEN cacheMiddleware(h, validated.req, generateKey(route, url))
           ELSE /\ http' = [http EXCEPT ![h] =
                     [validated.req EXCEPT !.pc = "upstream",
                                           !.pending = Operations(route),
                                           !.upstream = Operations(route)]]
                /\ store' = store
  /\ UNCHANGED <<clientSide, now, cacheCall, route, startup, request>>

\* One of the two operations the rss handler awaits resolves; the other
\* is still pending.
OperationResolves(h) ==
  /\ http[h].pc = "upstream"
  /\ http[h].pending > 1
  /\ http' = [http EXCEPT ![h].pending = http[h].pending - 1]
  /\ UNCHANGED <<clientSide, store, now, cacheCall, route, startup, request>>

\* What the handler awaits resolves: the result is sent, with res.json or
\* with res.send, under status 200.
HandlerResolves(h) ==
  /\ http[h].pc = "upstream"
  /\ http[h].pending = 1
  /\ \E data \in Payloads :
       LET key == generateKey(route, http[h].url)
           body == Render(route, data)
       IN /\ store' = IF SendsJson(route)
                         THEN json(http[h], key, 200, body)
                         ELSE send(http[h], key, 200, body)
          /\ http' = [http EXCEPT ![h] = Respond(h, http[h], 200, body)]
  /\ UNCHANGED <<clientSide, now, cacheCall, route, startup, request>>

\* An operation the handler awaits rejects (any failure of the upstream
\* call: a status, no response, a timeout): the catch block answers 500,
\* with res.json, the widget route with res.send.
HandlerRejects(h) ==
  /\ http[h].pc = "upstream"
  /\ \E err \in OtherErrors \cup {Err401} :
       LET key == generateKey(route, http[h].url)
           body == IF route # "widget" THEN err.message
                                       ELSE "Failed to generate widget"
       IN /\ store' = IF route # "widget"
                         THEN json(http[h], key, 500, body)
                         ELSE send(http[h], key, 500, body)
          /\ http' = [http EXCEPT ![h] = Respond(h, http[h], 500, body)]
  /\ UNCHANGED <<clientSide, now, cacheCall, route, startup, request>>

\* The values of process.env.NODE_ENV (NULL: not set).
Environments == {"production", "development", NULL}

\* (mutant) The flush route does not look at the environment.
FlushRequest_Anywhere(h) ==
  /\ http[h].pc \in {"idle", "done"}
  /\ route \in ProtectedRoutes
  /\ \E env \in Environments :
       /\ store' = flush
       /\ http' = [http EXCEPT ![h] =
            Respond(h, [IdleHttp EXCEPT !.url = "/api/cache/flush",
                                        !.env = env],
                    200, "Cache successfully flushed")]
  /\ UNCHANGED <<clientSide, now, cacheCall, route, startup, request>>

\* DELETE /cache/flush arrives (the route has no checkAuth): refused in
\* production, otherwise cache.flush().
FlushRequest(h) ==
  /\ http[h].pc \in {"idle", "done"}
  /\ route \in ProtectedRoutes
  /\ \E env \in Environments :
       LET r == [IdleHttp EXCEPT !.url = "/api/cache/flush", !.env = env] IN
         IF env = "production"
           THEN /\ http' = [http EXCEPT ![h] =
                     Respond(h, r, 403, "Not allowed in production")]
                /\ store' = store
           ELSE /\ store' = flush
                /\ http' = [http EXCEPT ![h] =
                     Respond(h, r, 200, "Cache successfully flushed")]
  /\ UNCHANGED <<clientSide, now, cacheCall, route, startup, request>>

\* POST /auth/login arrives: validateBody(schemas.login), then the handler
\* invokes weverseClient.login and awaits it.
LoginRequest(h) ==
  /\ h = Observed
  /\ route = "login"
  /\ http[h].pc \in {"idle", "done"}
  /\ \E body \in LoginBodies :
       LET r == [IdleHttp EXCEPT !.url = "/api/auth/login",
                                 !.reqBody = Some(body)] IN
         IF loginSchema(body)
           THEN /\ http' = [http EXCEPT ![h] =
                     Respond(h, r, 400, "ValidationError")]
                /\ login' = login
           ELSE /\ http' = [http EXCEPT ![h] = [r EXCEPT !.pc = "login"]]
                /\ login' = [IdleLogin EXCEPT !.pc = "init"]
  /\ UNCHANGED <<session, call, others, store, now, cacheCall, route, startup,
                 request>>

\* weverseClient.login has settled: the login route answers.
LoginAnswers(h) ==
  /\ http[h].pc = "login"
  /\ login.pc = "done"
  /\ http' = [http EXCEPT ![h] =
       CASE login.result = "true"
              -> Respond(h, http[h], 200, "Authentication successful")
         [] login.result = "false"
              -> Respond(h, http[h], 401, "Authentication failed")
         [] OTHER
              -> Respond(h, http[h], 500, "Authentication failed")]
  /\ UNCHANGED <<clientSide, store, now, cacheCall, route, startup, request>>

\* The server starts: the requests under observation go to one route.
ServerInit ==
  /\ ClientInit
  /\ CacheInit
  /\ route \in Routes
  /\ http = [h \in Https |-> IdleHttp]
  /\ request = NoRequest

ServerNext ==
  \/ \E h \in Https :
       \/ HttpRequest(h)
       \/ OperationResolves(h)
       \/ HandlerResolves(h)
       \/ HandlerRejects(h)
       \/ FlushRequest(h)
       \/ LoginRequest(h)
       \/ LoginAnswers(h)
  \/ LoginInitFails
  \/ LoginInitSucceeds
  \/ LoginPostFails
  \/ LoginPostSucceeds
  \/ Tick
  \/ Sweep

ServerSpec == ServerInit /\ [][ServerNext]_vars


(***************************************************************************)
(* Properties.                                                             *)
(***************************************************************************)
Last(h) == h[Len(h)]
Range(f) == {f[i] : i \in DOMAIN f}
Completed == call.pc \in {"returned", "thrown"}

\* Token exchange requests in flight, of the observed call and the others.
RefreshesInFlight ==
  Cardinality({o \in Others : others[o] = "refresh"})
    + (IF call.pc = "refresh" THEN 1 ELSE 0)

\* C1: one logical call issues at most two resource requests and at most
\* one refresh request; when both attempts answer 401 and the refresh
\* succeeds, exactly two resource requests and one refresh occur and the
\* caller receives the second 401 failure.
C1_RetryBound ==
  /\ call.nReq <= 2
  /\ call.nRefresh <= 1
  /\ ( /\ Completed
       /\ Len(call.hist) >= 2
       /\ call.hist[1].status = 401
       /\ call.hist[2].status = 401
       /\ call.rhist[1].returned = "true" )
     => /\ call.nReq = 2
        /\ call.nRefresh = 1
        /\ call.pc = "thrown"
        /\ call.result = WrappedMessage(call.op, Err401)

\* C2: when the first attempt answers 401, the refresh succeeds and the
\* second attempt answers 200, exactly one refresh request and two resource
\* requests have been issued and the call returns the payload of the 200
\* response.
C2_RetryReturnsPayload ==
  ( /\ Len(call.hist) = 2
    /\ call.hist[1].status = 401
    /\ call.hist[2].status = 200 )
  => /\ call.pc = "returned"
     /\ call.nReq = 2
     /\ call.nRefresh = 1
     /\ Len(call.rhist) = 1
     /\ call.rhist[1].returned = "true"
     /\ call.result = call.hist[2].data

C2_Witness ==
  /\ call.pc = "returned"
  /\ Len(call.hist) = 2
  /\ call.hist[1].status = 401
  /\ call.hist[2].status = 200
  /\ call.rhist[1].returned = "true"
  /\ call.result = "data2"

\* C3: every invocation of a resource operation eventually completes
\* (returns or throws), given that every request gets a response.
C3_EveryCallCompletes == (call.pc = "get") ~> Completed

\* C4: when refreshAccessToken returns false after a 401, the resource
\* request is not issued again (every request issued has been answered and
\* the operation has thrown) and the error thrown carries the message of
\* that 401 response.
C4_FailedRefreshSurfaces401 ==
  (Len(call.rhist) >= 1 /\ Last(call.rhist).returned = "false")
  => /\ call.pc = "thrown"
     /\ call.nReq = Len(call.hist)
     /\ Last(call.hist).status = 401
     /\ call.result = OpContext(call.op) \o ": " \o Last(call.hist).message

C4_Witness ==
  /\ call.pc = "thrown"
  /\ call.nRefresh = 1
  /\ Len(call.rhist) = 1
  /\ call.rhist[1].exchange = "error"
  /\ call.rhist[1].returned = "false"
  /\ call.result = "Failed to get posts: Request failed with status code 401"

\* C5: when a resource request fails with anything other than 401, the
\* operation throws at once: no request is issued after it, no refresh is
\* attempted for it (refreshes were made only for the 401 responses before
\* it), and the message thrown is the operation context, ": ", the cause.
C5_OtherFailureNotRetried ==
  (Len(call.hist) >= 1 /\ Last(call.hist).status \notin {200, 401})
  => /\ call.pc = "thrown"
     /\ call.nReq = Len(call.hist)
     /\ call.nRefresh = Len(call.hist) - 1
     /\ Len(call.rhist) = Len(call.hist) - 1
     /\ call.result = OpContext(call.op) \o ": " \o Last(call.hist).message

C5_Witness ==
  /\ call.pc = "thrown"
  /\ call.nReq = 1
  /\ call.nRefresh = 0
  /\ call.hist = <<ErrorResponse(ErrTimeout)>>
  /\ call.result = "Failed to get communities: timeout of 10000ms exceeded"

\* C6: at any moment at most one refresh request is in flight.
C6_SingleRefreshInFlight == RefreshesInFlight <= 1

\* C7: login never throws; it returns true exactly when the login request
\* was answered and the answer carried an access token, and false when the
\* initialize request failed, the login request failed, or the answer
\* carried no access token.
C7_LoginReturnsBoolean ==
  login.pc = "done"
  => /\ login.result \in {"true", "false"}
     /\ login.result = "true"
          <=> (login.cause = "answered" /\ login.got # NULL)
     /\ login.cause \in {"initFailed", "encryptFailed", "postFailed"}
          => login.result = "false"

C7_Witness ==
  /\ login.pc = "done"
  /\ login.cause = "postFailed"
  /\ login.result = "false"

\* C8: a step in which login returns false changes neither the access
\* token, nor the refresh token, nor the Authorization header.
C8_FailedLoginKeepsSession ==
  [][ (login.pc # "done" /\ login'.pc = "done" /\ login'.result # "true")
      => (token' = token /\ refreshToken' = refreshToken
          /\ authHeader' = authHeader) ]_vars

C8_Witness ==
  /\ login.pc = "done"
  /\ login.result = "false"
  /\ login.cause = "answered"
  /\ token = NULL
  /\ refreshToken = NULL
  /\ authHeader = NULL

\* C9: refreshAccessToken, invoked with no refresh token stored, sends no
\* request and returns false; when the exchange request errors it returns
\* false; it never throws.  The exchange requests issued are those of the
\* invocations that found a refresh token.
C9_RefreshFailsQuietly ==
  /\ \A i \in 1..Len(call.rhist) :
       /\ call.rhist[i].returned # "thrown"
       /\ ~call.rhist[i].had
            => (call.rhist[i].exchange = "none"
                /\ call.rhist[i].returned = "false")
       /\ call.rhist[i].exchange = "error" => call.rhist[i].returned = "false"
  /\ call.nRefresh =
       Cardinality({i \in 1..Len(call.rhist) : call.rhist[i].exchange # "none"})

C9_Witness ==
  /\ call.pc = "thrown"
  /\ call.nRefresh = 0
  /\ Len(call.rhist) = 1
  /\ ~call.rhist[1].had
  /\ call.rhist[1].returned = "false"

\* The step in which refreshAccessToken returns true to the observed call.
RefreshReturnedTrue ==
  /\ call.pc = "refresh"
  /\ call'.pc = "get"
  /\ Last(call'.rhist).returned = "true"

\* C10 (as stated): in the step in which refresh returns true, the access
\* token and the refresh token both become those of the refresh response.
C10_RefreshReplacesBoth ==
  [][ RefreshReturnedTrue
      => (token' = call'.answer.access_token
          /\ refreshToken' = call'.answer.refresh_token) ]_vars

\* C10 (amended): in the step in which refresh returns true, the access
\* token becomes that of the refresh response, and the refresh token
\* becomes that of the response when it carries one and is kept otherwise.
C10_RefreshReplacesTokens ==
  [][ RefreshReturnedTrue
      => (token' = call'.answer.access_token
          /\ refreshToken' =
               IF call'.answer.refresh_token # NULL
                 THEN call'.answer.refresh_token
                 ELSE refreshToken) ]_vars

C10_Witness ==
  /\ call.pc = "get"
  /\ Len(call.rhist) >= 1
  /\ Last(call.rhist).returned = "true"
  /\ call.answer.access_token = "tokB"
  /\ call.answer.refresh_token = NULL
  /\ token = "tokB"
  /\ refreshToken = "tokA"

\* C11: an access token the session holds is one the account service
\* returned in answer to a login or a token exchange (Tokens); the session
\* takes no token from anywhere else, construction included.
C11_TokenWasIssued == token # NULL => token \in Tokens

\* The observed request before and after a step, and its cache key.
req == http[Observed]
reqAfter == http'[Observed]
KeyAfter == generateKey(route, reqAfter.url)
\* The step in which the observed request arrives at a cached route with a
\* target that passes validation.
Arrives ==
  /\ req.pc \in {"idle", "done"}
  /\ reqAfter # req
  /\ route \in Namespaces
  /\ reqAfter.url \in Urls(route)
\* The step in which its handler, having awaited the client, sends the
\* response.
Answers ==
  req.pc = "upstream" /\ reqAfter.pc = "done" /\ route \in Namespaces

C13_MissThenStored ==
  [][ (Answers /\ reqAfter.status = 200)
      => store'[KeyAfter] = Entry(reqAfter.body, now, DEFAULT_TTL) ]_vars

\* C14: when the handler of a request answers with a status other than
\* 200 (the upstream call failed, timed out or was refused), the store is
\* left as it was: a key without a live entry still has none, so that the
\* next request for it misses the cache.
C14_FailureLeavesCache ==
  [][ (Answers /\ reqAfter.status # 200)
      => /\ store' = store
         /\ reqAfter.status = 500
         /\ Found(KeyAfter) # "live"
            => \/ ~store'[KeyAfter].has
               \/ now' - store'[KeyAfter].setAt > store'[KeyAfter].ttl ]_vars

C14_Witness ==
  /\ http[1].pc = "done"
  /\ ~http[1].hit
  /\ http[1].status = 500
  /\ http[1].body = ErrTimeout.message
  /\ http[1].upstream = 1
  /\ ~store[generateKey(route, http[1].url)].has
  /\ route = "communities"

\* C15 (as stated): a get that follows a set of the same key at once
\* returns the value that was set, and a get returns null only when the
\* key has no entry or its entry has expired.
C15_GetReturnsWhatWasSet ==
  [][ CacheGet
      => /\ ( /\ cacheCall.op = "set"
              /\ cacheCall.key = cacheCall'.key
              /\ store[cacheCall.key].setAt = now )
            => cacheCall'.result = cacheCall.value
         /\ cacheCall'.result = NULL
            => Found(cacheCall'.key) \in {"none", "expired"} ]_vars

\* C16: a get made after the ttl of an entry has elapsed since the entry
\* was last set returns null, and the entry is no longer in the store.
C16_ExpiredEntryAbsent ==
  [][ (CacheGet /\ Found(cacheCall'.key) = "expired")
      => /\ cacheCall'.result = NULL
         /\ ~store'[cacheCall'.key].has ]_vars

C16_Witness ==
  /\ cacheCall.op = "get"
  /\ cacheCall.found = "expired"
  /\ cacheCall.result = NULL
  /\ ~store[cacheCall.key].has

C18_GenerateKeyPure ==
  [][ (cacheCall'.op = "generateKey" /\ cacheCall' # cacheCall)
      => /\ store' = store
         /\ now' = now
         /\ clientSide' = clientSide
         /\ <<route, http, request>>' = <<route, http, request>>
         /\ cacheCall'.result = cacheCall'.ns \o ":" \o cacheCall'.id
         /\ ( /\ cacheCall.op = "generateKey"
              /\ cacheCall.ns = cacheCall'.ns
              /\ cacheCall.id = cacheCall'.id )
            => cacheCall'.result = cacheCall.result ]_vars

C18_Witness ==
  /\ cacheCall.op = "generateKey"
  /\ cacheCall.ns = "rss"
  /\ cacheCall.id = "/api/communities/c2/rss"
  /\ cacheCall.result = "rss:/api/communities/c2/rss"
  /\ store # EmptyStore

\* C19: getPosts, getComments and getNotifications send page = 1 and
\* size = 20 when the argument is left out and the argument itself when it
\* is given; getPosts and getComments send sort = RECENT, and
\* getNotifications sends no sort.
C19_PaginationDefaults ==
  request.op \in {"getPosts", "getComments", "getNotifications"}
  => /\ request.params.page =
          (IF request.page = None THEN Some(1) ELSE request.page)
     /\ request.params.size =
          (IF request.size = None THEN Some(20) ELSE request.size)
     /\ request.op \in {"getPosts", "getComments"}
          => request.params.sort = Some("RECENT")
     /\ request.op = "getNotifications" => request.params.sort = None

C19_Witness ==
  /\ request.op = "getComments"
  /\ request.page = None
  /\ request.size = Some(50)
  /\ request.params.page = Some(1)
  /\ request.params.size = Some(50)
  /\ request.params.sort = Some("RECENT")

\* C20: getPosts sends a type exactly when a (non-empty) type other than
\* 'all' is given, and sends it in capitals, letter for letter ('artist' as
\* ARTIST, 'fan' as FAN); with no type or 'all' it sends none.
C20_TypeUppercased ==
  request.op = "getPosts"
  => /\ request.params.type # None
          <=> ( /\ request.type # None
                /\ request.type # Some(<<>>)
                /\ request.type # Some(TypeAll) )
     /\ request.params.type # None
          => /\ Len(request.params.type[1]) = Len(request.type[1])
             /\ \A i \in 1..Len(request.type[1]) :
                  /\ request.params.type[1][i] \in Range(CapitalLetters)
                  /\ \E j \in DOMAIN SmallLetters :
                       /\ request.params.type[1][i] = CapitalLetters[j]
                       /\ request.type[1][i]
                            \in {SmallLetters[j], CapitalLetters[j]}
     /\ request.type = Some(TypeArtist)
          => request.params.type = Some(<<"A", "R", "T", "I", "S", "T">>)
     /\ request.type = Some(TypeFan)
          => request.params.type = Some(<<"F", "A", "N">>)

C20_Witness ==
  /\ request.op = "getPosts"
  /\ request.type = Some(TypeArtist)
  /\ request.params = [page |-> Some(1), size |-> Some(20),
                       sort |-> Some("RECENT"),
                       type |-> Some(<<"A", "R", "T", "I", "S", "T">>)]

\* The step in which the observed operation settles on a response other
\* than 401: it returns the payload or throws the wrapped failure.
SettlesWithout401 ==
  /\ call.pc = "get"
  /\ call'.pc \in {"returned", "thrown"}
  /\ Last(call'.hist).status # 401

\* The step in which a login installs the tokens it was answered with.
LoginInstalls ==
  login.pc = "post" /\ login'.pc = "done" /\ login'.result = "true"

\* The step in which a refresh (of the observed call or of another)
\* installs the tokens it was answered with.
RefreshInstalls ==
  \/ RefreshReturnedTrue
  \/ \E o \in Others : others[o] = "refresh" /\ others'[o] = "get"

\* C22: a step that changes the access token, the refresh token or the
\* Authorization header is the successful end of a login or of a refresh;
\* the step in which a resource operation returns, or throws after a
\* failure other than 401, changes none of the three.
C22_SessionChangedOnlyByAuth ==
  [][ /\ session' # session => (LoginInstalls \/ RefreshInstalls)
      /\ SettlesWithout401 => session' = session ]_vars

C22_Witness ==
  /\ call.pc = "thrown"
  /\ call.nReq = 1
  /\ call.hist[1].status = 500
  /\ token = "tokA"
  /\ refreshToken = "tokB"
  /\ authHeader = "Bearer tokA"

\* C23: whenever the session holds an access token, the Authorization
\* header of the axios instance is "Bearer " followed by that token; and
\* the request an operation issues after a successful refresh carries the
\* token that refresh was answered with.
C23_HeaderIsBearerToken ==
  /\ token # NULL => authHeader = "Bearer " \o token
  /\ ( /\ call.pc = "get"
       /\ Len(call.rhist) >= 1
       /\ Last(call.rhist).returned = "true" )
     => call.sent = "Bearer " \o call.answer.access_token

C23_Witness ==
  /\ call.pc = "get"
  /\ call.nReq = 2
  /\ call.rhist[1].returned = "true"
  /\ call.answer.access_token = "tokB"
  /\ call.sent = "Bearer tokB"
  /\ token = "tokB"
  /\ login.result = "true"
  /\ login.got = "tokA"

\* C24: within the observed call, a token exchange is issued only in the
\* step that handles a 401 answer to the call's resource request, and a
\* further resource request is issued only in the step in which that token
\* exchange is answered with an access token; while the exchange is in
\* flight no resource request of the call is, and conversely.
C24_StepsInOrder ==
  [][ /\ call'.nRefresh = call.nRefresh + 1
         => /\ call.pc = "get"
            /\ Len(call'.hist) = call.nReq
            /\ Last(call'.hist).status = 401
            /\ call'.pc = "refresh"
      /\ (call'.nReq = call.nReq + 1 /\ call.nReq >= 1)
         => /\ call.pc = "refresh"
            /\ Last(call'.rhist).exchange = "answered"
            /\ Last(call'.rhist).returned = "true"
            /\ call'.nRefresh = call.nRefresh
      /\ call'.pc = "refresh"
         => (call'.nReq = Len(call'.hist) /\ Last(call'.hist).status = 401)
      /\ call'.pc = "get"
         => /\ call'.nReq = Len(call'.hist) + 1
            /\ \A i \in 1..Len(call'.rhist) :
                 call'.rhist[i].returned = "true" ]_vars

C24_Witness ==
  /\ call.pc = "get"
  /\ call.op = "getMedia"
  /\ call.nReq = 3
  /\ call.nRefresh = 2
  /\ Len(call.hist) = 2
  /\ call.rhist[2].returned = "true"

\* C25: an authenticated request whose key has no live entry misses and
\* invokes its own operations of the client, whatever requests for the
\* same key are in flight, and leaves those in flight as they are; a
\* request beside the observed one that goes on to its handler invokes its
\* own operations as well.
C25_MissesNotSerialized ==
  [][ /\ (Arrives /\ Authenticated /\ Found(KeyAfter) # "live")
         => /\ reqAfter.pc = "upstream"
            /\ ~reqAfter.hit
            /\ reqAfter.upstream = Operations(route)
            /\ reqAfter.pending = Operations(route)
            /\ \A g \in Https \ {Observed} : http'[g] = http[g]
      /\ \A g \in Https \ {Observed} :
           (http[g].pc # "upstream" /\ http'[g].pc = "upstream")
           => /\ http'[g].upstream = Operations(route)
              /\ http'[Observed] = http[Observed] ]_vars

\* Every request slot has its own upstream call in flight, all for one key
\* that has no entry.
C25_Witness ==
  /\ \A h \in Https :
       /\ http[h].pc = "upstream"
       /\ http[h].url = http[Observed].url
       /\ http[h].upstream = 1
       /\ http[h].pending = 1
  /\ route = "posts"
  /\ ~store[generateKey(route, http[Observed].url)].has

\* C27: an entry whose ttl has elapsed does not stay in the store for
\* ever, whether or not its key is read again: the periodic check removes
\* it (unless a get, a delete, a flush or a new set of the key did so
\* before).
C27_ExpiredEventuallySwept ==
  \A k \in ApiKeys :
    (store[k].has /\ Expired(store[k]))
      ~> ~(store[k].has /\ Expired(store[k]))

\* The last call of the cache was the set of a key; since then time has
\* passed beyond the ttl and the entry is gone.
C27_Witness ==
  /\ cacheCall.op = "set"
  /\ cacheCall.ttl = Some(ShortTtl)
  /\ ~store[cacheCall.key].has
  /\ now >= ShortTtl + checkperiod
  /\ \E k \in ApiKeys : store[k].has /\ ~Expired(store[k])

\* C26: no step of a login or of a refresh, whether it succeeds or fails,
\* reads or writes the cache: the entries, their expiry times and the
\* record of the last call of the cache are the same after it.
C26_AuthLeavesCache ==
  [][ (login' # login \/ others' # others \/ session' # session)
      => /\ store' = store
         /\ now' = now
         /\ cacheCall' = cacheCall ]_vars

\* A login installed tokA, a refresh replaced it by tokB, a later login
\* failed, and the cache holds an entry with the default ttl and one with
\* a shorter ttl.
C26_Witness ==
  /\ login.pc = "done"
  /\ login.result = "false"
  /\ token = "tokB"
  /\ refreshToken = "tokA"
  /\ \E k \in ApiKeys : store[k] = Entry("data1", 0, DEFAULT_TTL)
  /\ \E k \in ApiKeys : store[k] = Entry("data2", 0, ShortTtl)

\* C21: the pagination schema accepts a query exactly when page, if given,
\* is an integer of at least 1, size, if given, is an integer from 1 to
\* 100, and type, if given, is 'artist', 'fan' or 'all'; the value of an
\* accepted query has page 1 and size 20 where they were missing and the
\* numbers given otherwise; page 0 and size 101 are rejected.
C21_PaginationSchema ==
  request.op = "validateQuery"
  => LET page == request.page
         size == request.size
         type == request.type
         pageOk == \/ page = None
                   \/ page[1].num /\ \E n \in 1..101 : page[1].twice = n + n
         sizeOk == \/ size = None
                   \/ size[1].num /\ \E n \in 1..100 : size[1].twice = n + n
         typeOk == type \in {None, Some(<<"a", "r", "t", "i", "s", "t">>),
                             Some(<<"f", "a", "n">>), Some(<<"a", "l", "l">>)}
     IN /\ request.error <=> ~(pageOk /\ sizeOk /\ typeOk)
        /\ ~request.error
             => /\ page = None => request.params.page = Some(1)
                /\ size = None => request.params.size = Some(20)
                /\ page # None
                     => /\ request.params.page # None
                        /\ 2 * request.params.page[1] = page[1].twice
                /\ size # None
                     => /\ request.params.size # None
                        /\ 2 * request.params.size[1] = size[1].twice
                /\ request.params.type = type
        /\ page = Some(Number(0)) => request.error
        /\ size = Some(Number(202)) => request.error

\* The empty query is accepted and comes back with page 1 and size 20.
C21_Witness ==
  /\ request.op = "validateQuery"
  /\ request.page = None
  /\ request.size = None
  /\ request.type = None
  /\ ~request.error
  /\ request.params.page = Some(1)
  /\ request.params.size = Some(20)

\* The step in which the observed request is one for the flush route.
FlushArrives ==
  /\ req.pc \in {"idle", "done"}
  /\ reqAfter # req
  /\ reqAfter.url = "/api/cache/flush"

\* The keys of the route under observation (the keys that may hold an
\* entry).
RouteKeys ==
  IF route \in Namespaces THEN {generateKey(route, u) : u \in Urls(route)}
                          ELSE {}

\* C28: a flush request is answered 403 and leaves every entry as it was
\* when NODE_ENV is production, and otherwise is answered 200 and leaves
\* no entry; delete(key), for a key with or without an entry, leaves no
\* entry under the key and every other entry as it was.
C28_FlushAndDelete ==
  [][ /\ FlushArrives
         => IF reqAfter.env = "production"
              THEN /\ reqAfter.status = 403
                   /\ store' = store
              ELSE /\ reqAfter.status = 200
                   /\ \A k \in Keys : ~store'[k].has
      /\ \A key \in RouteKeys :
           LET after == delete(key) IN
             /\ ~after[key].has
             /\ \A k \in Keys \ {key} : after[k] = store[k] ]_vars

\* A flush was refused in production, and the cache holds a live entry.
C28_Witness ==
  /\ http[Observed].url = "/api/cache/flush"
  /\ http[Observed].env = "production"
  /\ http[Observed].status = 403
  /\ \E k \in Keys : store[k].has /\ ~Expired(store[k])

\* The step in which the observed request arrives at a protected route.
ProtectedArrives ==
  /\ req.pc \in {"idle", "done"}
  /\ reqAfter # req
  /\ route \in ProtectedRoutes
  /\ reqAfter.url \in Urls(route) \cup InvalidUrls(route)

\* C29: while the client holds no token, a request for any of the eleven
\* protected routes is answered 401 in the step in which it arrives:
\* cacheMiddleware has not looked in the cache, no operation of the client
\* is invoked, and the store and the client are as they were; and a
\* request answered from the cache arrived while a token was held.
C29_NoTokenNoService ==
  [][ /\ (ProtectedArrives /\ token = NULL)
         => /\ reqAfter.pc = "done"
            /\ reqAfter.status = 401
            /\ ~reqAfter.looked
            /\ ~reqAfter.hit
            /\ reqAfter.upstream = 0
            /\ store' = store
            /\ clientSide' = clientSide
      /\ (reqAfter # req /\ reqAfter.hit) => token # NULL ]_vars

C29_Witness ==
  /\ token = NULL
  /\ route = "export"
  /\ http[Observed].pc = "done"
  /\ http[Observed].url = "/api/communities/c1/export"
  /\ http[Observed].status = 401
  /\ http[Observed].upstream = 0

\* The step in which the observed request is one for the login route.
LoginArrives ==
  /\ req.pc \in {"idle", "done"}
  /\ reqAfter # req
  /\ reqAfter.url = "/api/auth/login"

\* C30: a request on which a validation middleware runs (it has passed
\* checkAuth where the route has it) and reports an error is answered 400
\* in that step: the cache is not looked in, the store is as it was, no
\* operation of the client and no login is invoked.  A 400 is the answer
\* to a rejected query or body only (the id the router takes from the path
\* always passes).  A query that passes reaches the handler as the value of
\* the schema: page 1 and size 20 where the query had none.  A body that
\* passes starts a login.
C30_ValidationStops ==
  [][ /\ ( /\ ProtectedArrives
           /\ token # NULL
           /\ reqAfter.url \in InvalidUrls(route) )
         => /\ reqAfter.pc = "done"
            /\ reqAfter.status = 400
            /\ ~reqAfter.looked
            /\ reqAfter.upstream = 0
            /\ store' = store
            /\ clientSide' = clientSide
      /\ ( /\ LoginArrives
           /\ reqAfter.reqBody[1] # [email |-> Some(GoodEmail),
                                     password |-> Some(GoodPassword)] )
         => /\ reqAfter.pc = "done"
            /\ reqAfter.status = 400
            /\ login' = login
            /\ session' = session
            /\ store' = store
      /\ ( /\ LoginArrives
           /\ reqAfter.reqBody[1] = [email |-> Some(GoodEmail),
                                     password |-> Some(GoodPassword)] )
         => reqAfter.pc = "login" /\ login'.pc = "init"
      /\ (ProtectedArrives /\ reqAfter.status = 400)
         => reqAfter.url \in InvalidUrls(route)
      /\ ( /\ ProtectedArrives
           /\ ValidatesQuery(route)
           /\ reqAfter.pc = "upstream" )
         => /\ reqAfter.query # None
            /\ reqAfter.query[1].page =
                 (IF reqAfter.url \in {"/api/communities/c1/posts?page=2",
                                       "/api/posts/p1/comments?page=2"}
                    THEN Some(2) ELSE Some(1))
            /\ reqAfter.query[1].size =
                 (IF reqAfter.url = "/api/notifications?size=50"
                    THEN Some(50) ELSE Some(20))
            /\ reqAfter.query[1].type = None ]_vars

\* A posts request with page=0 was answered 400 while the cache holds the
\* posts of the community and the client a token.
C30_Witness ==
  /\ route = "posts"
  /\ token # NULL
  /\ http[Observed].url = "/api/communities/c1/posts?page=0"
  /\ http[Observed].status = 400
  /\ ~http[Observed].looked
  /\ store["posts:/api/communities/c1/posts"].has
  /\ ~Expired(store["posts:/api/communities/c1/posts"])

\* The step in which refreshAccessToken returns false to the observed
\* call (at once, for want of a refresh token, or after its exchange).
RefreshReturnedFalse ==
  /\ call.pc \in {"get", "refresh"}
  /\ call'.pc = "thrown"
  /\ call'.rhist # call.rhist
  /\ Last(call'.rhist).returned = "false"

\* C31: no step of a refresh that returns false changes the access token,
\* the refresh token or the Authorization header: neither the step in
\* which its exchange request goes out, nor the step in which it returns
\* false (for want of a refresh token, on an answer without access token,
\* or on a failed exchange); the same for the refreshes of other callers.
C31_FailedRefreshKeepsSession ==
  [][ /\ RefreshReturnedFalse => session' = session
      /\ (call.pc = "get" /\ call'.pc = "refresh") => session' = session
      /\ \A o \in Others :
           \/ others[o] = "refresh" /\ others'[o] = "idle"
           \/ others[o] = "get" /\ others'[o] = "refresh"
           => session' = session ]_vars

\* A refresh, made with the refresh token tokB, was answered without an
\* access token: the session is the one the login installed.
C31_Witness ==
  /\ call.pc = "thrown"
  /\ Len(call.rhist) = 1
  /\ call.rhist[1] = RefreshEntry(TRUE, "answered", "false")
  /\ call.answer.refresh_token = "tokA"
  /\ token = "tokA"
  /\ refreshToken = "tokB"
  /\ authHeader = "Bearer tokA"
  /\ login.got = "tokA"

\* C32: a step taken while the client holds an access token ends with the
\* client holding one, so that checkAuth, once it lets requests through,
\* does so in every later state.
C32_TokenNeverCleared ==
  [][ /\ token # NULL => token' # NULL
      /\ Authenticated => Authenticated' ]_vars

\* After a successful login: a later login failed, and the observed call
\* was answered 401 twice and gave up on a failed refresh; the token is
\* still held.
C32_Witness ==
  /\ token \in Tokens
  /\ login.pc = "done"
  /\ login.result = "false"
  /\ call.pc = "thrown"
  /\ Len(call.hist) = 2
  /\ call.hist[1].status = 401
  /\ call.hist[2].status = 401
  /\ call.rhist[2].returned = "false"

\* C35: a call whose first request was answered 401, whose refresh
\* returned true and whose second request failed otherwise has thrown: it
\* issued two requests and one token exchange, and the message thrown is
\* the operation context, ": ", and the message of the second failure,
\* with the context in front once.
C35_RetryFailureWrappedOnce ==
  ( /\ Len(call.hist) = 2
    /\ call.hist[1].status = 401
    /\ call.hist[2].status \notin {200, 401} )
  => /\ call.pc = "thrown"
     /\ call.nReq = 2
     /\ call.nRefresh = 1
     /\ call.rhist = <<RefreshEntry(TRUE, "answered", "true")>>
     /\ \E err \in OtherErrors :
          /\ call.hist[2] = ErrorResponse(err)
          /\ call.result = OpContext(call.op) \o ": " \o err.message

C35_Witness ==
  /\ call.op = "getComments"
  /\ call.pc = "thrown"
  /\ call.nReq = 2
  /\ call.nRefresh = 1
  /\ call.hist = <<ErrorResponse(Err401), ErrorResponse(Err500)>>
  /\ call.rhist[1].returned = "true"
  /\ call.result = "Failed to get comments: Request failed with status code 500"

\* The request targets of the model, whatever route serves them.
Targets == UNION {Urls(ns) \cup InvalidUrls(ns) : ns \in Namespaces}

\* C34: the key generateKey returned for a namespace of the routes and a
\* request target is the key of no other pair of such a namespace and a
\* target: two requests that differ in namespace or in target read and
\* write different cache entries.
C34_KeysAreDistinct ==
  cacheCall.op = "generateKey"
  => \A ns \in Namespaces : \A id \in Targets :
       generateKey(ns, id) = cacheCall.key
       => ns = cacheCall.ns /\ id = cacheCall.id

\* The key of the second page of a community's posts was generated while
\* the cache holds the first page: the two keys differ, and no entry is
\* held under the new one.
C34_Witness ==
  /\ cacheCall.op = "generateKey"
  /\ cacheCall.ns = "posts"
  /\ cacheCall.id = "/api/communities/c1/posts?page=2"
  /\ cacheCall.key = "posts:/api/communities/c1/posts?page=2"
  /\ cacheCall.key # generateKey("posts", "/api/communities/c1/posts")
  /\ store[generateKey("posts", "/api/communities/c1/posts")].has
  /\ ~store[cacheCall.key].has

\* The step in which the observed request, for a valid target of a cached
\* route, is answered: at once from the cache, or by its handler.
ObservedAnswered ==
  /\ reqAfter # req
  /\ reqAfter.pc = "done"
  /\ route \in Namespaces
  /\ reqAfter.url \in Urls(route)

\* C33: an entry appears or changes under a key of the route only in the
\* step in which a response is sent to a request of that route whose
\* target gives the key, and it holds a body that handlers send with
\* status 200; when that request is the observed one, its response has
\* status 200 and the entry holds its body.  Every response the observed
\* request gets with status 200 leaves the entry under its key, if there
\* is one, equal to the body sent, whatever other requests for the key
\* stored before: the entry holds the body sent last.
C33_EntryIsBodySentLast ==
  [][ \A k \in RouteKeys :
        /\ (store'[k].has /\ store'[k] # store[k])
           => /\ store'[k].v \in {Render(route, d) : d \in Payloads}
              /\ \E h \in Https :
                   /\ http[h].pc = "upstream"
                   /\ http'[h].pc # "upstream"
                   /\ http[h].url \in Urls(route)
                   /\ generateKey(route, http[h].url) = k
                   /\ h = Observed => /\ reqAfter.status = 200
                                      /\ reqAfter.body = store'[k].v
        /\ ( /\ ObservedAnswered
             /\ reqAfter.status = 200
             /\ KeyAfter = k
             /\ store'[k].has )
           => store'[k].v = reqAfter.body
        /\ ( /\ ObservedAnswered
             /\ reqAfter.status = 200
             /\ KeyAfter = k
             /\ SendsJson(route) )
           => store'[k].has ]_vars

\* Two requests for one key missed the cache; the observed one was
\* answered data1, the other one, later, data2: the entry holds data2.
C33_Witness ==
  /\ route = "posts"
  /\ req.pc = "done"
  /\ ~req.hit
  /\ req.status = 200
  /\ req.body = "data1"
  /\ req.url = "/api/communities/c1/posts?page=2"
  /\ http[2].pc = "idle"
  /\ store[generateKey(route, req.url)].has
  /\ store[generateKey(route, req.url)].v = "data2"
  /\ store[generateKey(route, req.url)].setAt = 0

\* The step in which the auto-login function runs up to its await or to
\* its return.
AutoLoginRuns == startup.pc = "start" /\ startup'.pc # "start"

\* The session of a client without token.
Unset == <<NULL, NULL, NULL>>

\* C36: when the environment supplies a token, the constructed client
\* holds it as its token and in its Authorization header, and the
\* auto-login function returns without calling login; when it supplies
\* none, the client holds no token and the function calls login exactly
\* when the environment holds both an email and a password.  A login the
\* function awaits that returns false or throws leaves the session unset,
\* and the function logs the failure and returns.
C36_StartupLogin ==
  [][ /\ AutoLoginRuns
         => /\ session' = session
            /\ IF Truthy(startup.env.WEVERSE_API_TOKEN)
                 THEN /\ token = startup.env.WEVERSE_API_TOKEN
                      /\ authHeader = Bearer(token)
                      /\ login' = IdleLogin
                      /\ startup' = Started(startup.env, "existing token")
                 ELSE /\ session = Unset
                      /\ IF /\ Truthy(startup.env.WEVERSE_EMAIL)
                            /\ Truthy(startup.env.WEVERSE_PASSWORD)
                           THEN /\ login'.pc = "init"
                                /\ startup'.pc = "login"
                           ELSE /\ login' = IdleLogin
                                /\ startup'.pc = "done"
      /\ ( /\ startup.pc = "login"
           /\ login'.pc = "done"
           /\ login'.result # "true" )
         => session' = Unset
      /\ ( /\ startup.pc = "login"
           /\ startup'.pc = "done"
           /\ login.result # "true" )
         => /\ session' = Unset
            /\ startup'.logged \in {"failed", "error"} ]_vars

\* Started without token and with credentials; the login request of the
\* auto-login failed: the function has returned, the session is unset.
C36_Witness ==
  /\ startup = Started(Environment(EmptyString, EnvEmail, EnvPassword),
                       "failed")
  /\ login.pc = "done"
  /\ login.result = "false"
  /\ login.cause = "postFailed"
  /\ session = Unset
  /\ call.pc = "thrown"

====
